---- MODULE Spec2Model ----
(***************************************************************************)
(* A model of logger.py: the configuration cache (LoggerConfig), the sink  *)
(* builders (ConsoleLogger, FileLogger, RemoteLogger), the delivery router *)
(* (get_handlers_with_listeners), the logger assembly                      *)
(* (LoggerFactory.setup), and the run of a caller that logs through        *)
(* app_logger and then stops log_listeners (test_logger.main).  The        *)
(* behaviour of the logging package that the code relies on               *)
(* (Logger.addHandler, Logger.callHandlers, QueueHandler.emit,             *)
(* QueueListener.start/_monitor/handle/stop) is modelled at the call site. *)
(***************************************************************************)
EXTENDS Integers, Sequences, FiniteSets, TLC

\* ------------------------------------------------------------- bounds
\* The number of log calls the caller makes.
MaxLogs == 2
\* The number of calls of LoggerConfig.get_config made after the import.
MaxCalls == 2

\* ------------------------------------------------------- configuration
Unset == "unset"

Sinks == <<"console", "file", "remote">>
SinkSet == {"console", "file", "remote"}

\* The five severity-keyed log methods of the logger (test_logger.main).
Severities == {"DEBUG", "INFO", "WARNING", "ERROR", "CRITICAL"}

\* getattr(logging, name) for the level names.
LevelNo(name) ==
    CASE name = "DEBUG" -> 10
      [] name = "INFO" -> 20
      [] name = "WARNING" -> 30
      [] name = "ERROR" -> 40
      [] name = "CRITICAL" -> 50

\* DEFAULTS
DEFAULTS ==
    [LOGGER_NAME |-> "APP",
     CONSOLE_HANDLER_LEVEL |-> "INFO",
     FILE_HANDLER_LEVEL |-> "DEBUG",
     REMOTE_HANDLER_LEVEL |-> "WARNING"]

\* A section of the configuration: a mapping whose keys may be unset, or a
\* key that the `logger` mapping does not have at all (present = FALSE).
AbsentSection == [present |-> FALSE, level |-> Unset, async |-> Unset, url |-> Unset]

ConsoleSections ==
    {AbsentSection} \cup
    [present : {TRUE}, level : {Unset, "WARNING"}, async : {"False", "True"}, url : {Unset}]

FileSections ==
    {AbsentSection} \cup
    [present : {TRUE}, level : {Unset, "ERROR"}, async : {Unset, "True"}, url : {Unset}]

RemoteSections ==
    {AbsentSection} \cup
    [present : {TRUE}, level : {Unset, "NONE", "ERROR"}, async : {Unset, "True"},
     url : {Unset, "", "http://h:8080/in"}]

\* The values get_config can hold or return: None, or a mapping.
NoneValue ==
    [isNone |-> TRUE, logger_name |-> Unset,
     console |-> AbsentSection, file |-> AbsentSection, remote |-> AbsentSection]

EmptyMapping ==
    [isNone |-> FALSE, logger_name |-> Unset,
     console |-> AbsentSection, file |-> AbsentSection, remote |-> AbsentSection]

\* The sinks a `logger` mapping marks asynchronous.
MarkedAsync(config) == {s \in SinkSet : config[s].async = "True"}

\* The `logger` mappings checked.  The logger name is varied on the mappings
\* that mark no sink asynchronous; the console and file levels, the remote
\* level ERROR and the empty URL on those that mark at most one.
LoggerSections ==
    {c \in [isNone : {FALSE}, logger_name : {Unset, "SVC"},
            console : ConsoleSections, file : FileSections, remote : RemoteSections] :
        /\ MarkedAsync(c) # {} => c.logger_name = Unset
        /\ Cardinality(MarkedAsync(c)) >= 2 =>
              /\ c.console.level = Unset
              /\ c.file.level = Unset
              /\ c.remote.level # "ERROR"
              /\ c.remote.url # ""}

\* config.yaml as open() and yaml.safe_load see it.
\*   missing    : no such file                       (FileNotFoundError)
\*   unparsable : not a YAML document                (yaml.YAMLError)
\*   nokey      : a mapping without the key `logger` (KeyError)
\*   notmapping : an empty document, a list, a scalar (TypeError on ['logger'])
\*   mapping    : a mapping with the key `logger`, whose value is `logger`
\*                (None for a `logger:` key with nothing under it)
Documents ==
    [kind : {"missing", "unparsable", "nokey", "notmapping"}, logger : {EmptyMapping}]
    \cup [kind : {"mapping"}, logger : LoggerSections \cup {NoneValue}]

\* dict.get(key, default) on a section.
Get(section, key, default) ==
    IF section[key] = Unset THEN default ELSE section[key]

VARIABLES
    source,        \* config.yaml
    cls_config,    \* LoggerConfig._config
    reads,         \* how many times config.yaml has been opened
    calls,         \* how many calls of get_config after the import
    returned,      \* what each call of get_config returned, and the number of
                   \* reads of config.yaml made by then, in order
    pcMain,        \* where the importing caller is
    error,         \* the exception that ended the import, "" if none
    loggerName,    \* root_logger.name
    rootHandlers,  \* root_logger.handlers
    listeners,     \* log_listeners
    worker,        \* each listener's thread
    queues,        \* the queue.Queue each LoggerBase made
    records,       \* the severity of every record logged, in order
    emitted,       \* what each sink wrote: record ids, in order
    stopped        \* for each listener whose stop() has returned, in order,
                   \* the number of records logged by then

vars == <<source, cls_config, reads, calls, returned, pcMain, error, loggerName,
          rootHandlers, listeners, worker, queues, records, emitted,
          stopped>>

\* ----------------------------------------------------- LoggerConfig
\* LoggerConfig.get_config on the cache `cache` with config.yaml as `src`:
\* the cache afterwards, the value returned, the exception that escaped
\* ("" if none) and whether config.yaml was opened.
\* get_config without the `if cls._config is None` test: every call loads.
get_config_always_loads(cache, src) ==
    CASE src.kind \in {"missing", "unparsable", "nokey"} ->
            [cache |-> EmptyMapping, ret |-> EmptyMapping, raised |-> "", read |-> 1]
      [] src.kind = "notmapping" ->
            [cache |-> cache, ret |-> cache, raised |-> "TypeError", read |-> 1]
      [] src.kind = "mapping" ->
            [cache |-> src.logger, ret |-> src.logger, raised |-> "", read |-> 1]

get_config(cache, src) ==
    IF ~cache.isNone
    THEN [cache |-> cache, ret |-> cache, raised |-> "", read |-> 0]
    ELSE CASE src.kind \in {"missing", "unparsable", "nokey"} ->
                [cache |-> EmptyMapping, ret |-> EmptyMapping, raised |-> "", read |-> 1]
           [] src.kind = "notmapping" ->
                [cache |-> cache, ret |-> cache, raised |-> "TypeError", read |-> 1]
           [] src.kind = "mapping" ->
                [cache |-> src.logger, ret |-> src.logger, raised |-> "", read |-> 1]

\* --------------------------------------------------------- handlers
\* A handler object: which one it is, its level, and (for the QueueHandler)
\* the queue it puts records on.  NoHandler is the None a builder returns.
NoHandler == [kind |-> "None", level |-> 0, queue |-> "none"]

\* LoggerBase.__init__: every LoggerBase owns a queue and a QueueHandler on it;
\* `owner` is "base" for base_logger and the LOG_TYPE for a sink's instance.
queue_handler(owner) == [kind |-> "queue", level |-> 0, queue |-> owner]

QueueIds == {"base"} \cup SinkSet

\* ConsoleLogger.setup that takes the default level whatever is configured.
ConsoleLogger_setup_default_level(config) ==
    [kind |-> "console",
     level |-> LevelNo(DEFAULTS.CONSOLE_HANDLER_LEVEL),
     queue |-> "none"]

\* ConsoleLogger.setup
ConsoleLogger_setup(config) ==
    [kind |-> "console",
     level |-> LevelNo(Get(config.console, "level", DEFAULTS.CONSOLE_HANDLER_LEVEL)),
     queue |-> "none"]

\* FileLogger.setup
FileLogger_setup(config) ==
    [kind |-> "file",
     level |-> LevelNo(Get(config.file, "level", DEFAULTS.FILE_HANDLER_LEVEL)),
     queue |-> "none"]

\* RemoteLogger.setup without the test of the URL.
RemoteLogger_setup_no_url_test(config) ==
    LET remote_level == Get(config.remote, "level", DEFAULTS.REMOTE_HANDLER_LEVEL)
    IN  IF remote_level # "NONE"
        THEN [kind |-> "remote", level |-> LevelNo(remote_level), queue |-> "none"]
        ELSE NoHandler

\* RemoteLogger.setup
RemoteLogger_setup(config) ==
    LET remote_level == Get(config.remote, "level", DEFAULTS.REMOTE_HANDLER_LEVEL)
        remote_url == config.remote.url
    IN  IF remote_level # "NONE" /\ remote_url # Unset /\ remote_url # ""
        THEN [kind |-> "remote", level |-> LevelNo(remote_level), queue |-> "none"]
        ELSE NoHandler

\* logger_class().setup() for the class whose LOG_TYPE is `sink`.
SinkSetup(sink, config) ==
    CASE sink = "console" -> ConsoleLogger_setup(config)
      [] sink = "file" -> FileLogger_setup(config)
      [] sink = "remote" -> RemoteLogger_setup(config)

\* A listener bound to the queue of the sink's own LoggerBase instance.
ListenerQueue_of_instance(sink) == sink

\* The queue a listener of an asynchronous sink is bound to:
\* base_logger.log_queue.
ListenerQueue(sink) == "base"

\* One pass of the loop of get_handlers_with_listeners over
\* logger_classes[i..]: acc holds handlers, listeners, the number of
\* logger_class() instances made, and the exception raised ("" if none).
RECURSIVE Route(_, _, _)
Route(config, i, acc) ==
    IF i > Len(Sinks) \/ acc.raised # "" THEN acc
    ELSE LET sink == Sinks[i]
             section == config[sink]
         IN  IF ~section.present
             THEN [acc EXCEPT !.raised = "KeyError"]
             ELSE LET handler == SinkSetup(sink, config)
                      made == [acc EXCEPT !.built = @ + 1]
                  IN  IF Get(section, "async", "False") = "True"
                      THEN IF handler # NoHandler
                           THEN Route(config, i + 1,
                                  [made EXCEPT
                                     !.listeners = Append(@, [queue |-> ListenerQueue(sink),
                                                              handler |-> handler]),
                                     !.handlers = Append(@, queue_handler("base"))])
                           ELSE Route(config, i + 1, made)
                      ELSE IF handler # NoHandler
                           THEN Route(config, i + 1,
                                  [made EXCEPT !.handlers = Append(@, handler)])
                           ELSE Route(config, i + 1, made)

get_handlers_with_listeners(config) ==
    Route(config, 1, [handlers |-> <<>>, listeners |-> <<>>, built |-> 0, raised |-> ""])

\* addHandler that appends without looking.
addHandler_no_lookup(handlers, hdlr) == Append(handlers, hdlr)

\* Logger.addHandler: a handler already on the logger is not added again.
addHandler(handlers, hdlr) ==
    IF \E k \in 1..Len(handlers) : handlers[k] = hdlr
    THEN handlers
    ELSE Append(handlers, hdlr)

RECURSIVE addHandlers(_, _)
addHandlers(handlers, toAdd) ==
    IF toAdd = <<>> THEN handlers
    ELSE addHandlers(addHandler(handlers, Head(toAdd)), Tail(toAdd))

\* What each call of get_config during the import returned: n calls that all
\* hit the cache filled by the first.
Repeat(x, n) == [k \in 1..n |-> x]

\* ------------------------------------------------------------ Init
Init ==
    /\ source \in Documents
    /\ cls_config = NoneValue
    /\ reads = 0
    /\ calls = 0
    /\ returned = <<>>
    /\ pcMain = "import"
    /\ error = ""
    /\ loggerName = ""
    /\ rootHandlers = <<>>
    /\ listeners = <<>>
    /\ worker = <<>>
    /\ queues = [q \in QueueIds |-> <<>>]
    /\ records = <<>>
    /\ emitted = [s \in SinkSet |-> <<>>]
    /\ stopped = <<>>

\* ---------------------------------------------- LoggerFactory.setup
\* `from logger import app_logger, log_listeners`: the module body runs
\* LoggerFactory.setup() once.  An exception leaves the import failed.
Setup ==
    /\ pcMain = "import"
    /\ LET first == get_config(cls_config, source)
           config == first.ret
           got == get_handlers_with_listeners(config)
           entry == [value |-> config, reads |-> reads + first.read,
                     fresh |-> get_config(NoneValue, source).ret]
       IN  /\ cls_config' = first.cache
           /\ reads' = reads + first.read
           /\ IF first.raised # ""
              THEN /\ error' = first.raised
                   /\ pcMain' = "raised"
                   /\ returned' = returned
                   /\ UNCHANGED <<loggerName, rootHandlers, listeners, worker>>
              ELSE IF config.isNone
              THEN /\ error' = "AttributeError"
                   /\ pcMain' = "raised"
                   /\ returned' = returned \o Repeat(entry, 1)
                   /\ UNCHANGED <<loggerName, rootHandlers, listeners, worker>>
              ELSE /\ loggerName' = Get(config, "logger_name", DEFAULTS.LOGGER_NAME)
                   /\ returned' = returned \o Repeat(entry, 2 + got.built)
                   /\ IF got.raised # ""
                      THEN /\ error' = got.raised
                           /\ pcMain' = "raised"
                           /\ UNCHANGED <<rootHandlers, listeners, worker>>
                      ELSE /\ error' = ""
                           /\ pcMain' = "running"
                           /\ rootHandlers' = addHandlers(rootHandlers, got.handlers)
                           /\ listeners' = got.listeners
                           /\ worker' = [k \in 1..Len(got.listeners) |->
                                           [pc |-> "waiting", rec |-> 0]]
    /\ UNCHANGED <<source, calls, queues, records, emitted, stopped>>

\* --------------------------------------------------------- logging
\* Handler.handle of a sink's handler for record `id`: the sink writes it.
Emit(em, kind, id) == [em EXCEPT ![kind] = Append(@, id)]

\* Logger.callHandlers for record `id` of level `levelno` over the handlers
\* hs[i..]: each handler whose level the record reaches handles it.  A sink's
\* handler writes the record; the QueueHandler puts it on its queue.
\* st is [emitted, queues].
RECURSIVE callHandlers(_, _, _, _, _)
callHandlers(hs, i, id, levelno, st) ==
    IF i > Len(hs) THEN st
    ELSE LET hdlr == hs[i]
         IN  IF levelno >= hdlr.level
             THEN IF hdlr.kind = "queue"
                  THEN callHandlers(hs, i + 1, id, levelno,
                         [st EXCEPT !.queues[hdlr.queue] = Append(@, id)])
                  ELSE callHandlers(hs, i + 1, id, levelno,
                         [st EXCEPT !.emitted = Emit(@, hdlr.kind, id)])
             ELSE callHandlers(hs, i + 1, id, levelno, st)

\* app_logger.debug / info / warning / error / critical.  The logger's own
\* level is DEBUG, which every one of the five reaches.
Log(severity) ==
    /\ pcMain = "running"
    /\ Len(records) < MaxLogs
    /\ LET id == Len(records) + 1
           st == callHandlers(rootHandlers, 1, id, LevelNo(severity),
                              [emitted |-> emitted, queues |-> queues])
       IN  /\ LevelNo(severity) >= LevelNo("DEBUG")
           /\ records' = Append(records, severity)
           /\ emitted' = st.emitted
           /\ queues' = st.queues
    /\ UNCHANGED <<source, cls_config, reads, calls, returned, pcMain, error,
                   loggerName, rootHandlers, listeners, worker, stopped>>

\* ------------------------------------------------- QueueListener
\* The sentinel QueueListener.stop enqueues: the one None every listener shares.
Sentinel == 0

\* QueueListener._monitor, the blocking dequeue: the thread of listener i takes
\* the head of its queue; the sentinel ends the thread.
Dequeue(i) ==
    /\ i \in 1..Len(listeners)
    /\ worker[i].pc = "waiting"
    /\ queues[listeners[i].queue] # <<>>
    /\ LET q == listeners[i].queue
           item == Head(queues[q])
       IN  /\ queues' = [queues EXCEPT ![q] = Tail(@)]
           /\ worker' = [worker EXCEPT ![i] =
                           IF item = Sentinel
                           THEN [pc |-> "exited", rec |-> 0]
                           ELSE [pc |-> "handling", rec |-> item]]
    /\ UNCHANGED <<source, cls_config, reads, calls, returned, pcMain, error,
                   loggerName, rootHandlers, listeners, records, emitted, stopped>>

\* QueueListener.handle: respect_handler_level is False, so the record goes
\* to the listener's handler whatever the handler's level.
ListenerProcesses(levelno, handler) == TRUE

Handle(i) ==
    /\ i \in 1..Len(listeners)
    /\ worker[i].pc = "handling"
    /\ LET id == worker[i].rec
           handler == listeners[i].handler
       IN  emitted' = IF ListenerProcesses(LevelNo(records[id]), handler)
                      THEN Emit(emitted, handler.kind, id)
                      ELSE emitted
    /\ worker' = [worker EXCEPT ![i] = [pc |-> "waiting", rec |-> 0]]
    /\ UNCHANGED <<source, cls_config, reads, calls, returned, pcMain, error,
                   loggerName, rootHandlers, listeners, queues, records, stopped>>

\* How many listeners the caller has stopped.
stopIdx == Len(stopped)

\* listener.stop(), first half: enqueue the sentinel on the listener's queue,
\* then join the listener's thread.
StopBegin ==
    /\ pcMain = "running"
    /\ stopIdx < Len(listeners)
    /\ queues' = [queues EXCEPT ![listeners[stopIdx + 1].queue] = Append(@, Sentinel)]
    /\ pcMain' = "joining"
    /\ UNCHANGED <<source, cls_config, reads, calls, returned, error, loggerName,
                   rootHandlers, listeners, worker, records, emitted, stopped>>

\* listener.stop(), second half: the join returns once the thread has ended.
StopJoin ==
    /\ pcMain = "joining"
    /\ worker[stopIdx + 1].pc = "exited"
    /\ stopped' = Append(stopped, Len(records))
    /\ pcMain' = "running"
    /\ UNCHANGED <<source, cls_config, reads, calls, returned, error, loggerName,
                   rootHandlers, listeners, worker, queues, records, emitted>>

\* main() returns after the loop over log_listeners.
Finish ==
    /\ pcMain = "running"
    /\ stopIdx = Len(listeners)
    /\ pcMain' = "done"
    /\ UNCHANGED <<source, cls_config, reads, calls, returned, error, loggerName,
                   rootHandlers, listeners, worker, queues, records, emitted, stopped>>

\* ------------------------------------------- later get_config calls
\* A call of LoggerConfig.get_config() by code that has imported the module.
\* A failed import leaves no module, hence no LoggerConfig to call.
\* Each value returned is recorded with the number of reads of config.yaml
\* made by then and with what a load of config.yaml would give at that moment.
GetConfigCall ==
    /\ pcMain \notin {"import", "raised"}
    /\ calls < MaxCalls
    /\ calls' = calls + 1
    /\ LET r == get_config(cls_config, source)
       IN  /\ cls_config' = r.cache
           /\ reads' = reads + r.read
           /\ returned' = IF r.raised # "" THEN returned
                          ELSE Append(returned,
                                      [value |-> r.ret, reads |-> reads + r.read,
                                       fresh |-> get_config(NoneValue, source).ret])
    /\ UNCHANGED <<source, pcMain, error, loggerName, rootHandlers, listeners,
                   worker, queues, records, emitted, stopped>>

\* What config.yaml is rewritten to while the process runs: deleted, emptied
\* under `logger`, or replaced by another configuration.
Rewrites ==
    {[kind |-> "missing", logger |-> EmptyMapping],
     [kind |-> "mapping", logger |-> NoneValue],
     [kind |-> "mapping",
      logger |-> [isNone |-> FALSE, logger_name |-> "SVC",
                  console |-> [AbsentSection EXCEPT !.present = TRUE, !.async = "False"],
                  file |-> [AbsentSection EXCEPT !.present = TRUE],
                  remote |-> [AbsentSection EXCEPT !.present = TRUE]]]}

\* Something outside the process rewrites config.yaml.
SourceChange(doc) ==
    /\ doc # source
    /\ source' = doc
    /\ UNCHANGED <<cls_config, reads, calls, returned, pcMain, error, loggerName,
                   rootHandlers, listeners, worker, queues, records, emitted, stopped>>

\* ------------------------------------------------- specifications
Next ==
    \/ Setup
    \/ \E severity \in Severities : Log(severity)
    \/ \E i \in 1..3 : Dequeue(i)
    \/ \E i \in 1..3 : Handle(i)
    \/ StopBegin
    \/ StopJoin
    \/ Finish

\* The import followed by the caller's run: log calls, the listeners'
\* threads, and the stops.
Spec == Init /\ [][Next]_vars

\* The import followed by calls of get_config and rewrites of config.yaml.
CacheNext ==
    \/ Setup
    \/ GetConfigCall
    \/ \E doc \in Rewrites : SourceChange(doc)

CacheSpec == Init /\ [][CacheNext]_vars

\* ------------------------------------------------------- properties
\* What the claims are stated with.  The thresholds and the sinks a
\* configuration asks for are read off the configuration here, not off the
\* handlers the builders made.

\* The elements of a sequence, and how often x occurs in it.
Range(seq) == {seq[k] : k \in 1..Len(seq)}
Count(seq, x) == Cardinality({k \in 1..Len(seq) : seq[k] = x})

\* The import has run to its end without an exception.
SetupDone == pcMain \notin {"import", "raised"}

\* The threshold a sink is configured with: its level key, or the default
\* INFO for the console, DEBUG for the file, WARNING for the remote sink.
Threshold(sink) ==
    LET level == cls_config[sink].level
    IN  CASE level # Unset -> LevelNo(level)
          [] level = Unset /\ sink = "console" -> 20
          [] level = Unset /\ sink = "file" -> 10
          [] level = Unset /\ sink = "remote" -> 30

\* The remote sink is absent: no URL, or the level NONE.
RemoteAbsent ==
    \/ cls_config.remote.url \in {Unset, ""}
    \/ cls_config.remote.level = "NONE"

\* The sinks the loaded configuration asks for.
NonAbsent == {s \in SinkSet : cls_config[s].present /\ (s = "remote" => ~RemoteAbsent)}
AsyncSinks == {s \in NonAbsent : cls_config[s].async = "True"}
SyncSinks == NonAbsent \ AsyncSinks

\* The ids of the first n records logged that reach the threshold of `sink`,
\* in the order logged.
RECURSIVE DueUpTo(_, _)
DueUpTo(sink, n) ==
    IF n = 0 THEN <<>>
    ELSE IF LevelNo(records[n]) >= Threshold(sink)
         THEN Append(DueUpTo(sink, n - 1), n)
         ELSE DueUpTo(sink, n - 1)

Due(sink) == DueUpTo(sink, Len(records))

\* How many handlers of a kind the logger carries, how many listeners forward
\* to a sink.
OnLogger(kind) == Cardinality({k \in 1..Len(rootHandlers) : rootHandlers[k].kind = kind})
ListenersOf(sink) == {k \in 1..Len(listeners) : listeners[k].handler.kind = sink}

\* C1: when config.yaml is missing, unparsable or has no `logger` key,
\* get_config yields the empty mapping and the import completes: the logger
\* has the default name, listeners are returned, and the sinks are built.
C1_LoadFailureFallsBackToDefaults ==
    (pcMain # "import" /\ source.kind \in {"missing", "unparsable", "nokey"}) =>
        /\ cls_config = EmptyMapping
        /\ error = ""
        /\ pcMain # "raised"
        /\ loggerName = DEFAULTS.LOGGER_NAME

\* C2: with console, file and remote all synchronous, after any sequence of
\* log calls each sink has written exactly the records that reach its
\* configured threshold, once each, in the order logged; an absent remote
\* sink has written nothing.
C2_SyncSinksEmitExactlyDue ==
    (SetupDone /\ MarkedAsync(cls_config) = {}) =>
        \A s \in SinkSet :
            emitted[s] = IF s \in NonAbsent THEN Due(s) ELSE <<>>

\* C2 witness: console threshold WARNING, info then warning logged, and the
\* console has written the warning alone.
C2_Witness ==
    /\ SetupDone
    /\ MarkedAsync(cls_config) = {}
    /\ cls_config.console.level = "WARNING"
    /\ records = <<"INFO", "WARNING">>
    /\ emitted.console = <<2>>
    /\ emitted.file = <<1, 2>>

\* C3: once the stop of an asynchronous sink's listener has returned, that
\* sink has written every record logged before the stop that reaches its
\* threshold.
C3_FlushOnStop ==
    \A i \in 1..Len(stopped) :
        \A id \in 1..stopped[i] :
            LevelNo(records[id]) >= Threshold(listeners[i].handler.kind)
                => id \in Range(emitted[listeners[i].handler.kind])

\* C4: shutdown terminates: a stop that waits for its listener's thread can
\* always go on (the thread can still take a step or has ended), and when
\* the caller is through every listener's thread has ended.
C4_ShutdownTerminates ==
    /\ pcMain = "joining" => ENABLED Next
    /\ pcMain = "done" => \A i \in 1..Len(worker) : worker[i].pc = "exited"

\* C5: no sink ever writes a record whose severity is below the sink's
\* configured threshold.
C5_NothingBelowThreshold ==
    \A s \in SinkSet :
        \A id \in Range(emitted[s]) : LevelNo(records[id]) >= Threshold(s)

\* C6: when the remote section has no URL or has the level NONE, the import
\* fails for no reason of the remote section, and the remote sink
\* contributes nothing: no handler on the logger, no listener, no queue
\* handler of its own, and never an HTTP call.
C6_AbsentRemoteContributesNothing ==
    (pcMain # "import" /\ ~cls_config.isNone /\ cls_config.remote.present /\ RemoteAbsent) =>
        /\ error # "" => ~(cls_config.console.present /\ cls_config.file.present)
        /\ OnLogger("remote") = 0
        /\ ListenersOf("remote") = {}
        /\ emitted.remote = <<>>
        /\ error = "" =>
              /\ pcMain # "raised"
              /\ Len(listeners) = Cardinality(MarkedAsync(cls_config) \ {"remote"})
              /\ OnLogger("queue") =
                    IF MarkedAsync(cls_config) \ {"remote"} = {} THEN 0 ELSE 1

\* C6 witness: a remote section marked asynchronous with a URL and the level
\* NONE, beside an asynchronous console; records of the highest severity have
\* gone through the logger and the queue.
C6_Witness ==
    /\ SetupDone
    /\ cls_config.remote.level = "NONE"
    /\ cls_config.remote.url \notin {Unset, ""}
    /\ cls_config.remote.async = "True"
    /\ cls_config.console.async = "True"
    /\ Len(records) = MaxLogs
    /\ \A id \in 1..Len(records) : records[id] = "CRITICAL"
    /\ Len(emitted.console) = MaxLogs
    /\ emitted.remote = <<>>

\* C7: a loaded `logger` mapping that omits the console, file or remote
\* section has the omitted sinks disabled: the import raises nothing.
C7_OmittedSectionIsDisabledSink ==
    (pcMain # "import" /\ source.kind = "mapping" /\ ~source.logger.isNone
        /\ \E s \in SinkSet : ~source.logger[s].present) =>
        /\ error = ""
        /\ pcMain # "raised"

\* C8: after setup every non-absent sink is attached once and by one path.
\* A synchronous sink's handler is on the logger once and in no listener; an
\* asynchronous sink's handler is in one listener, bound to the queue of the
\* logger's queue handler, and not on the logger; the logger carries the
\* queue handler once if some non-absent sink is asynchronous and not
\* otherwise; there are as many started listeners as non-absent asynchronous
\* sinks; an absent sink is attached nowhere.
C8_AttachedExactlyOnce ==
    SetupDone =>
        LET nonAbsent == NonAbsent
            async == {s \in nonAbsent : cls_config[s].async = "True"}
        IN  /\ \A s \in nonAbsent \ async : OnLogger(s) = 1 /\ ListenersOf(s) = {}
            /\ \A s \in async :
                  /\ OnLogger(s) = 0
                  /\ Cardinality(ListenersOf(s)) = 1
                  /\ \A k \in ListenersOf(s) :
                        \E j \in 1..Len(rootHandlers) :
                            /\ rootHandlers[j].kind = "queue"
                            /\ rootHandlers[j].queue = listeners[k].queue
            /\ \A s \in SinkSet \ nonAbsent : OnLogger(s) = 0 /\ ListenersOf(s) = {}
            /\ OnLogger("queue") = IF async = {} THEN 0 ELSE 1
            /\ Len(listeners) = Cardinality(async)
            /\ Len(worker) = Len(listeners)
            /\ \A k \in 1..Len(worker) : worker[k].pc \in {"waiting", "handling", "exited"}
            /\ \A k \in 1..Len(listeners) : listeners[k].queue = listeners[1].queue

\* C8 witness: console and file asynchronous beside a synchronous remote
\* sink: two listeners, one queue handler and the remote handler on the logger.
C8_Witness ==
    /\ SetupDone
    /\ AsyncSinks = {"console", "file"}
    /\ SyncSinks = {"remote"}
    /\ Len(listeners) = 2
    /\ Len(rootHandlers) = 2

\* C9: get_config reads config.yaml at most once: every value it returns is
\* the value its first return gave, and no read of config.yaml follows that
\* first return, whatever config.yaml has become.
C9_LoadedOnceAndCached ==
    \A k \in 1..Len(returned) :
        /\ returned[k].value = returned[1].value
        /\ returned[k].reads = returned[1].reads
        /\ returned[k].reads <= 1

\* C9 witness: a call after the import returned the cached mapping although a
\* load of config.yaml at that moment would have given another mapping.
C9_Witness ==
    /\ calls >= 1
    /\ returned[Len(returned)].fresh # returned[Len(returned)].value
    /\ ~returned[Len(returned)].fresh.isNone
    /\ source.kind = "mapping"
    /\ reads = 1

\* C10: no duplicate delivery.  A record is on the queues, in a listener's
\* hands, or written by an asynchronous sink at most once in all, and no
\* sink, synchronous or asynchronous, has written a record twice.
C10_NoDuplicateDelivery ==
    LET async == AsyncSinks
    IN  \A id \in 1..Len(records) :
            /\ LET queued == Count(queues.base, id) + Count(queues.console, id)
                                + Count(queues.file, id) + Count(queues.remote, id)
                   held == Cardinality({k \in 1..Len(worker) :
                                            worker[k].pc = "handling" /\ worker[k].rec = id})
                   delivered == Cardinality({s \in async : Count(emitted[s], id) > 0})
               IN  queued + held + delivered <= 1
            /\ \A s \in SinkSet : Count(emitted[s], id) <= 1

\* C10 witness: three asynchronous sinks on the one queue, and every record
\* logged has been written by one of them.
C10_Witness ==
    /\ SetupDone
    /\ Cardinality(AsyncSinks) = 3
    /\ Len(records) = MaxLogs
    /\ Len(emitted.console) + Len(emitted.file) + Len(emitted.remote) = MaxLogs
    /\ emitted.console # <<>>
    /\ emitted.file # <<>>

====
